---------------------------- MODULE Spec2Model ----------------------------
(***************************************************************************)
(* The encryption-code extractor of generate_encrypt_function.py: the      *)
(* class EncryptionExtractor (source index, classifier, dependency         *)
(* resolver, reassembler) and the driver main().                           *)
(*                                                                         *)
(* Text is modelled as Python has it: a str is a sequence of characters.   *)
(* A character is written as itself, except DQ (the double quote), BS (the *)
(* backslash), LF, TAB and Uxxxx (the character with that code point).     *)
(* The files of a project come from Disk, a catalogue of Python files with *)
(* the statement tree ast.parse builds for each and the text ast.unparse   *)
(* gives for its functions and assignments.                                *)
(***************************************************************************)
EXTENDS Integers, Sequences, FiniteSets, TLC

(***************************************************************************)
(* Bounds of the model.                                                    *)
(***************************************************************************)
\* the largest number of .py files in the project directory
MaxFiles == 3
\* the texts handed to the text functions on their own: at most MaxLines
\* lines of at most MaxWidth characters each
MaxLines == 2
MaxWidth == 2

(***************************************************************************)
(* Python's str operations, as far as the extractor uses them.             *)
(***************************************************************************)
CodePoint ==
    "TAB" :> 9 @@ "LF" :> 10 @@ " " :> 32 @@ "!" :> 33 @@ "DQ" :> 34
    @@ "#" :> 35 @@ "$" :> 36 @@ "%" :> 37 @@ "&" :> 38 @@ "'" :> 39 @@ "(" :> 40
    @@ ")" :> 41 @@ "*" :> 42 @@ "+" :> 43 @@ "," :> 44 @@ "-" :> 45 @@ "." :> 46
    @@ "/" :> 47 @@ "0" :> 48 @@ "1" :> 49 @@ "2" :> 50 @@ "3" :> 51 @@ "4" :> 52
    @@ "5" :> 53 @@ "6" :> 54 @@ "7" :> 55 @@ "8" :> 56 @@ "9" :> 57 @@ ":" :> 58
    @@ ";" :> 59 @@ "<" :> 60 @@ "=" :> 61 @@ ">" :> 62 @@ "?" :> 63 @@ "@" :> 64
    @@ "A" :> 65 @@ "B" :> 66 @@ "C" :> 67 @@ "D" :> 68 @@ "E" :> 69 @@ "F" :> 70
    @@ "G" :> 71 @@ "H" :> 72 @@ "I" :> 73 @@ "J" :> 74 @@ "K" :> 75 @@ "L" :> 76
    @@ "M" :> 77 @@ "N" :> 78 @@ "O" :> 79 @@ "P" :> 80 @@ "Q" :> 81 @@ "R" :> 82
    @@ "S" :> 83 @@ "T" :> 84 @@ "U" :> 85 @@ "V" :> 86 @@ "W" :> 87 @@ "X" :> 88
    @@ "Y" :> 89 @@ "Z" :> 90 @@ "[" :> 91 @@ "BS" :> 92 @@ "]" :> 93
    @@ "^" :> 94 @@ "_" :> 95 @@ "BQ" :> 96 @@ "a" :> 97 @@ "b" :> 98
    @@ "c" :> 99 @@ "d" :> 100 @@ "e" :> 101 @@ "f" :> 102 @@ "g" :> 103
    @@ "h" :> 104 @@ "i" :> 105 @@ "j" :> 106 @@ "k" :> 107 @@ "l" :> 108
    @@ "m" :> 109 @@ "n" :> 110 @@ "o" :> 111 @@ "p" :> 112 @@ "q" :> 113
    @@ "r" :> 114 @@ "s" :> 115 @@ "t" :> 116 @@ "u" :> 117 @@ "v" :> 118
    @@ "w" :> 119 @@ "x" :> 120 @@ "y" :> 121 @@ "z" :> 122 @@ "{" :> 123
    @@ "|" :> 124 @@ "}" :> 125 @@ "~" :> 126 @@ "U2139" :> 8505
    @@ "U26A0" :> 9888 @@ "U2705" :> 9989 @@ "U4E09" :> 19977 @@ "U4E0B" :> 19979
    @@ "U4E2D" :> 20013 @@ "U4E3B" :> 20027 @@ "U4E86" :> 20102
    @@ "U4EE3" :> 20195 @@ "U4EF6" :> 20214 @@ "U4F86" :> 20358
    @@ "U4F8B" :> 20363 @@ "U4F9D" :> 20381 @@ "U4FEE" :> 20462
    @@ "U5047" :> 20551 @@ "U5165" :> 20837 @@ "U5167" :> 20839
    @@ "U51FA" :> 20986 @@ "U51FD" :> 20989 @@ "U5230" :> 21040
    @@ "U5275" :> 21109 @@ "U529F" :> 21151 @@ "U52A0" :> 21152
    @@ "U52A9" :> 21161 @@ "U5305" :> 21253 @@ "U53D6" :> 21462
    @@ "U53EF" :> 21487 @@ "U53F0" :> 21488 @@ "U542B" :> 21547
    @@ "U548C" :> 21644 @@ "U554F" :> 21839 @@ "U5617" :> 22039
    @@ "U5728" :> 22312 @@ "U5927" :> 22823 @@ "U5B58" :> 23384
    @@ "U5B78" :> 23416 @@ "U5B9A" :> 23450 @@ "U5BC6" :> 23494
    @@ "U5BE6" :> 23526 @@ "U5C08" :> 23560 @@ "U5C0E" :> 23566
    @@ "U5DF2" :> 24050 @@ "U5E38" :> 24120 @@ "U5EAB" :> 24235
    @@ "U5EFA" :> 24314 @@ "U5F0F" :> 24335 @@ "U5F9E" :> 24478
    @@ "U5FA9" :> 24489 @@ "U6210" :> 25104 @@ "U627E" :> 25214
    @@ "U63D0" :> 25552 @@ "U6578" :> 25976 @@ "U6587" :> 25991
    @@ "U65B9" :> 26041 @@ "U672A" :> 26410 @@ "U672C" :> 26412
    @@ "U67E5" :> 26597 @@ "U683C" :> 26684 @@ "U6A19" :> 27161
    @@ "U6A21" :> 27169 @@ "U6B64" :> 27492 @@ "U6C7A" :> 27770
    @@ "U6E2C" :> 28204 @@ "U6E96" :> 28310 @@ "U7248" :> 29256
    @@ "U73FE" :> 29694 @@ "U7528" :> 29992 @@ "U7684" :> 30340
    @@ "U76EE" :> 30446 @@ "U76F8" :> 30456 @@ "U78BC" :> 30908
    @@ "U7A0B" :> 31243 @@ "U7B2C" :> 31532 @@ "U7F6E" :> 32622
    @@ "U7FA9" :> 32681 @@ "U81EA" :> 33258 @@ "U8981" :> 35201
    @@ "U89E3" :> 35299 @@ "U8A2D" :> 35373 @@ "U8A66" :> 35430
    @@ "U8AA4" :> 35492 @@ "U8CF4" :> 36084 @@ "U8F09" :> 36617
    @@ "U8F14" :> 36628 @@ "U904E" :> 36942 @@ "U90E8" :> 37096
    @@ "U91CF" :> 37327 @@ "U932F" :> 37679 @@ "U95DC" :> 38364
    @@ "U9805" :> 38917 @@ "U984C" :> 38988 @@ "U985E" :> 39006
    @@ "UFE0F" :> 65039 @@ "UFF08" :> 65288 @@ "UFF09" :> 65289
    @@ "UFF0C" :> 65292

LowerOf ==
    "A" :> "a" @@ "B" :> "b" @@ "C" :> "c" @@ "D" :> "d" @@ "E" :> "e" @@ "F" :> "f"
    @@ "G" :> "g" @@ "H" :> "h" @@ "I" :> "i" @@ "J" :> "j" @@ "K" :> "k" @@ "L" :> "l"
    @@ "M" :> "m" @@ "N" :> "n" @@ "O" :> "o" @@ "P" :> "p" @@ "Q" :> "q" @@ "R" :> "r"
    @@ "S" :> "s" @@ "T" :> "t" @@ "U" :> "u" @@ "V" :> "v" @@ "W" :> "w" @@ "X" :> "x"
    @@ "Y" :> "y" @@ "Z" :> "z"

UpperLetters == DOMAIN LowerOf
LowerLetters == {LowerOf[c] : c \in UpperLetters}
Whitespace == {" ", "TAB", "LF", "CR", "VT", "FF"}

\* s.lower()
Lower(s) == [i \in 1..Len(s) |-> IF s[i] \in UpperLetters THEN LowerOf[s[i]] ELSE s[i]]

\* s.isupper(): a cased character, and no lower-case one
IsUpper(s) ==
    /\ \E i \in 1..Len(s) : s[i] \in UpperLetters
    /\ \A i \in 1..Len(s) : s[i] \notin LowerLetters

\* needle in hay
Contains(hay, needle) ==
    \E i \in 0..(Len(hay) - Len(needle)) :
        \A j \in 1..Len(needle) : hay[i + j] = needle[j]

\* s.startswith(p)
StartsWith(s, p) == Len(p) <= Len(s) /\ SubSeq(s, 1, Len(p)) = p

\* s.lstrip()
LStrip(s) ==
    IF \A i \in 1..Len(s) : s[i] \in Whitespace THEN <<>>
    ELSE LET k == CHOOSE i \in 1..Len(s) :
                     /\ s[i] \notin Whitespace
                     /\ \A j \in 1..(i - 1) : s[j] \in Whitespace
         IN  SubSeq(s, k, Len(s))

\* s.strip()
Strip(s) ==
    LET t == LStrip(s)
    IN  IF t = <<>> THEN <<>>
        ELSE LET k == CHOOSE i \in 1..Len(t) :
                         /\ t[i] \notin Whitespace
                         /\ \A j \in (i + 1)..Len(t) : t[j] \in Whitespace
             IN  SubSeq(t, 1, k)

\* len(line) - len(line.lstrip())
IndentOf(line) == Len(line) - Len(LStrip(line))

\* s.split(): the words between runs of whitespace
RECURSIVE Words(_)
Words(s) ==
    LET t == LStrip(s)
    IN  IF t = <<>> THEN <<>>
        ELSE LET stops == {i \in 1..Len(t) : t[i] \in Whitespace}
                 k == IF stops = {} THEN Len(t) + 1
                      ELSE CHOOSE i \in stops : \A j \in stops : i <= j
             IN  <<SubSeq(t, 1, k - 1)>> \o Words(SubSeq(t, k, Len(t)))

\* s.split(c) for a one-character separator: empty pieces are kept
RECURSIVE SplitChar(_, _)
SplitChar(s, c) ==
    LET stops == {i \in 1..Len(s) : s[i] = c}
    IN  IF stops = {} THEN <<s>>
        ELSE LET k == CHOOSE i \in stops : \A j \in stops : i <= j
             IN  <<SubSeq(s, 1, k - 1)>> \o SplitChar(SubSeq(s, k + 1, Len(s)), c)

\* s.splitlines() (the catalogue's files end their lines with LF only)
SplitLines(s) ==
    IF s = <<>> THEN <<>>
    ELSE LET p == SplitChar(s, "LF")
         IN  IF s[Len(s)] = "LF" THEN SubSeq(p, 1, Len(p) - 1) ELSE p

\* sep.join(pieces)
RECURSIVE Join(_, _)
Join(pieces, sep) ==
    IF pieces = <<>> THEN <<>>
    ELSE IF Len(pieces) = 1 THEN pieces[1]
    ELSE pieces[1] \o sep \o Join(Tail(pieces), sep)

\* a < b for two str: by code point, a proper prefix first
StrLess(a, b) ==
    \E i \in 1..(Len(b)) :
        /\ \A j \in 1..(i - 1) : j <= Len(a) /\ a[j] = b[j]
        /\ \/ i = Len(a) + 1
           \/ i <= Len(a) /\ CodePoint[a[i]] < CodePoint[b[i]]

\* sorted(S) for a set of str
RECURSIVE Sorted(_)
Sorted(S) ==
    IF S = {} THEN <<>>
    ELSE LET m == CHOOSE x \in S : \A y \in S \ {x} : StrLess(x, y)
         IN  <<m>> \o Sorted(S \ {m})

\* the elements of a sequence
Range(q) == {q[i] : i \in 1..Len(q)}

\* the orders in which a set can be iterated
Orders(S) == {q \in [1..Cardinality(S) -> S] : Range(q) = S}

\* the concatenation of a sequence of sequences
RECURSIVE Flatten(_)
Flatten(qs) == IF qs = <<>> THEN <<>> ELSE qs[1] \o Flatten(Tail(qs))

(***************************************************************************)
(* The class constants.                                                    *)
(***************************************************************************)
ENCRYPTION_KEYWORDS ==
    { <<"e","n","c","r","y","p","t">>, <<"d","e","c","r","y","p","t">>, <<"c","i","p","h","e","r">>, <<"a","e","s">>, <<"d","e","s">>, <<"r","s","a">>, <<"m","d","5">>,
      <<"s","h","a">>, <<"h","a","s","h">>, <<"c","r","y","p","t","o">>, <<"p","a","d">>, <<"u","n","p","a","d">>, <<"p","b","k","d","f">>, <<"h","m","a","c">>,
      <<"c","r","y","p","t">>, <<"s","e","c","r","e","t">>, <<"k","e","y">>, <<"i","v">>, <<"n","o","n","c","e">>, <<"s","a","l","t">>, <<"e","n","c","o","d","e">>,
      <<"d","e","c","o","d","e">> }

CRYPTO_LIBRARIES ==
    { <<"C","r","y","p","t","o">>, <<"c","r","y","p","t","o","g","r","a","p","h","y">>, <<"p","y","c","r","y","p","t","o">>, <<"p","y","c","r","y","p","t","o","d","o","m","e">>,
      <<"h","a","s","h","l","i","b">>, <<"h","m","a","c">>, <<"s","e","c","r","e","t","s">>, <<"b","a","s","e","6","4">> }

\* the standard modules _extract_imports_from_ast keeps
STANDARD_MODULES ==
    { <<"o","s">>, <<"s","y","s">>, <<"s","t","r","u","c","t">>, <<"s","o","c","k","e","t">>, <<"t","h","r","e","a","d","i","n","g">>, <<"t","i","m","e">>,
      <<"u","n","i","t","t","e","s","t">>, <<"f","i","l","e","c","m","p">> }

\* crypto_patterns of _function_contains_crypto_operations
crypto_patterns ==
    { <<"a","e","s",".","n","e","w">>, <<"c","i","p","h","e","r",".">>, <<".","e","n","c","r","y","p","t">>, <<".","d","e","c","r","y","p","t">>, <<".","d","i","g","e","s","t">>,
      <<".","h","e","x","d","i","g","e","s","t">>, <<"h","a","s","h">>, <<"c","r","y","p","t","o">>, <<"p","b","k","d","f">>, <<"h","m","a","c">>, <<"r","s","a">>, <<"k","e","y">> }

\* the note _fix_import_statement appends to an internal import
INTERNAL_NOTE == <<" "," ","#"," ","U9805","U76EE","U5167","U90E8","U5C0E","U5165","UFF0C","U76F8","U95DC","U4EE3","U78BC","U5DF2","U5305","U542B","U5728","U4E0B","U65B9">>
\* what generate_fixed_oracle_file looks for to tell an internal import
INTERNAL_MARK == <<"#"," ","U9805","U76EE","U5167","U90E8","U5C0E","U5165">>

(***************************************************************************)
(* The files a project directory may hold.  A file is known by its index   *)
(* in Disk; parts is its path below the project root.  tree is what        *)
(* ast.parse(content) returns: parsed = FALSE for a SyntaxError, else the  *)
(* statement nodes in ast.walk (breadth-first) order, each with its        *)
(* parent's index (0: the Module).  unparse is ast.unparse(node), strings  *)
(* the string-literal statements of a function's body.                     *)
(***************************************************************************)
Disk ==
    <<
     (* 1: app.py *)
     (*   from cipher import Cipher *)
     (*   from .tables import SBOX *)
     (*   import pkg.cipher *)
     (*   import helper *)
     (*   CIPHER_KEY = b"0" * 16 *)
     [parts |-> <<<<"a","p","p",".","p","y">>>>,
      is_file |-> TRUE,
      readable |-> TRUE,
      content |-> <<"f","r","o","m"," ","c","i","p","h","e","r"," ","i","m","p","o","r","t"," ","C","i","p","h","e","r","LF","f","r","o","m"," ",".","t","a","b","l","e","s"," ","i","m","p","o","r","t"," ","S","B","O","X","LF","i","m","p","o","r","t"," ","p","k","g",".","c","i","p","h","e","r","LF","i","m","p","o","r","t"," ","h","e","l","p","e","r","LF","C","I","P","H","E","R","_","K","E","Y"," ","="," ","b","DQ","0","DQ"," ","*"," ","1","6","LF">>,
      tree |-> [parsed |-> TRUE, nodes |-> <<
        [type |-> "ImportFrom",
         parent |-> 0,
         lineno |-> 1,
         end_lineno |-> 1,
         name |-> <<>>,
         module |-> <<"c","i","p","h","e","r">>,
         level |-> 0,
         names |-> <<[name |-> <<"C","i","p","h","e","r">>, asname |-> <<>>]>>,
         targets |-> <<>>,
         strings |-> <<>>,
         unparse |-> <<>>],
        [type |-> "ImportFrom",
         parent |-> 0,
         lineno |-> 2,
         end_lineno |-> 2,
         name |-> <<>>,
         module |-> <<"t","a","b","l","e","s">>,
         level |-> 1,
         names |-> <<[name |-> <<"S","B","O","X">>, asname |-> <<>>]>>,
         targets |-> <<>>,
         strings |-> <<>>,
         unparse |-> <<>>],
        [type |-> "Import",
         parent |-> 0,
         lineno |-> 3,
         end_lineno |-> 3,
         name |-> <<>>,
         module |-> <<>>,
         level |-> 0,
         names |-> <<[name |-> <<"p","k","g",".","c","i","p","h","e","r">>, asname |-> <<>>]>>,
         targets |-> <<>>,
         strings |-> <<>>,
         unparse |-> <<>>],
        [type |-> "Import",
         parent |-> 0,
         lineno |-> 4,
         end_lineno |-> 4,
         name |-> <<>>,
         module |-> <<>>,
         level |-> 0,
         names |-> <<[name |-> <<"h","e","l","p","e","r">>, asname |-> <<>>]>>,
         targets |-> <<>>,
         strings |-> <<>>,
         unparse |-> <<>>],
        [type |-> "Assign",
         parent |-> 0,
         lineno |-> 5,
         end_lineno |-> 5,
         name |-> <<>>,
         module |-> <<>>,
         level |-> 0,
         names |-> <<>>,
         targets |-> <<[isName |-> TRUE, id |-> <<"C","I","P","H","E","R","_","K","E","Y">>]>>,
         strings |-> <<>>,
         unparse |-> <<"C","I","P","H","E","R","_","K","E","Y"," ","="," ","b","'","0","'"," ","*"," ","1","6">>]>>]],
     (* 2: pkg/cipher.py *)
     (*   class Box: *)
     (*       def encrypt(self, x): *)
     (*           return x *)
     [parts |-> <<<<"p","k","g">>, <<"c","i","p","h","e","r",".","p","y">>>>,
      is_file |-> TRUE,
      readable |-> TRUE,
      content |-> <<"c","l","a","s","s"," ","B","o","x",":","LF"," "," "," "," ","d","e","f"," ","e","n","c","r","y","p","t","(","s","e","l","f",","," ","x",")",":","LF"," "," "," "," "," "," "," "," ","r","e","t","u","r","n"," ","x","LF">>,
      tree |-> [parsed |-> TRUE, nodes |-> <<
        [type |-> "ClassDef",
         parent |-> 0,
         lineno |-> 1,
         end_lineno |-> 3,
         name |-> <<"B","o","x">>,
         module |-> <<>>,
         level |-> 0,
         names |-> <<>>,
         targets |-> <<>>,
         strings |-> <<>>,
         unparse |-> <<>>],
        [type |-> "FunctionDef",
         parent |-> 1,
         lineno |-> 2,
         end_lineno |-> 3,
         name |-> <<"e","n","c","r","y","p","t">>,
         module |-> <<>>,
         level |-> 0,
         names |-> <<>>,
         targets |-> <<>>,
         strings |-> <<>>,
         unparse |-> <<"d","e","f"," ","e","n","c","r","y","p","t","(","s","e","l","f",","," ","x",")",":","LF"," "," "," "," ","r","e","t","u","r","n"," ","x">>],
        [type |-> "Return",
         parent |-> 2,
         lineno |-> 3,
         end_lineno |-> 3,
         name |-> <<>>,
         module |-> <<>>,
         level |-> 0,
         names |-> <<>>,
         targets |-> <<>>,
         strings |-> <<>>,
         unparse |-> <<>>]>>]],
     (* 3: tables.py *)
     (*   SBOX = "a" "es" *)
     (*   from conf import setup *)
     [parts |-> <<<<"t","a","b","l","e","s",".","p","y">>>>,
      is_file |-> TRUE,
      readable |-> TRUE,
      content |-> <<"S","B","O","X"," ","="," ","DQ","a","DQ"," ","DQ","e","s","DQ","LF","f","r","o","m"," ","c","o","n","f"," ","i","m","p","o","r","t"," ","s","e","t","u","p","LF">>,
      tree |-> [parsed |-> TRUE, nodes |-> <<
        [type |-> "Assign",
         parent |-> 0,
         lineno |-> 1,
         end_lineno |-> 1,
         name |-> <<>>,
         module |-> <<>>,
         level |-> 0,
         names |-> <<>>,
         targets |-> <<[isName |-> TRUE, id |-> <<"S","B","O","X">>]>>,
         strings |-> <<>>,
         unparse |-> <<"S","B","O","X"," ","="," ","'","a","e","s","'">>],
        [type |-> "ImportFrom",
         parent |-> 0,
         lineno |-> 2,
         end_lineno |-> 2,
         name |-> <<>>,
         module |-> <<"c","o","n","f">>,
         level |-> 0,
         names |-> <<[name |-> <<"s","e","t","u","p">>, asname |-> <<>>]>>,
         targets |-> <<>>,
         strings |-> <<>>,
         unparse |-> <<>>]>>]],
     (* 4: helper.py *)
     (*   import os *)
     (*   from deep import low *)
     (*   MODE = "k" "ey" *)
     [parts |-> <<<<"h","e","l","p","e","r",".","p","y">>>>,
      is_file |-> TRUE,
      readable |-> TRUE,
      content |-> <<"i","m","p","o","r","t"," ","o","s","LF","f","r","o","m"," ","d","e","e","p"," ","i","m","p","o","r","t"," ","l","o","w","LF","M","O","D","E"," ","="," ","DQ","k","DQ"," ","DQ","e","y","DQ","LF">>,
      tree |-> [parsed |-> TRUE, nodes |-> <<
        [type |-> "Import",
         parent |-> 0,
         lineno |-> 1,
         end_lineno |-> 1,
         name |-> <<>>,
         module |-> <<>>,
         level |-> 0,
         names |-> <<[name |-> <<"o","s">>, asname |-> <<>>]>>,
         targets |-> <<>>,
         strings |-> <<>>,
         unparse |-> <<>>],
        [type |-> "ImportFrom",
         parent |-> 0,
         lineno |-> 2,
         end_lineno |-> 2,
         name |-> <<>>,
         module |-> <<"d","e","e","p">>,
         level |-> 0,
         names |-> <<[name |-> <<"l","o","w">>, asname |-> <<>>]>>,
         targets |-> <<>>,
         strings |-> <<>>,
         unparse |-> <<>>],
        [type |-> "Assign",
         parent |-> 0,
         lineno |-> 3,
         end_lineno |-> 3,
         name |-> <<>>,
         module |-> <<>>,
         level |-> 0,
         names |-> <<>>,
         targets |-> <<[isName |-> TRUE, id |-> <<"M","O","D","E">>]>>,
         strings |-> <<>>,
         unparse |-> <<"M","O","D","E"," ","="," ","'","k","e","y","'">>]>>]],
     (* 5: pkg/deep.py *)
     (*   def low(n): *)
     (*       return n + 1 *)
     [parts |-> <<<<"p","k","g">>, <<"d","e","e","p",".","p","y">>>>,
      is_file |-> TRUE,
      readable |-> TRUE,
      content |-> <<"d","e","f"," ","l","o","w","(","n",")",":","LF"," "," "," "," ","r","e","t","u","r","n"," ","n"," ","+"," ","1","LF">>,
      tree |-> [parsed |-> TRUE, nodes |-> <<
        [type |-> "FunctionDef",
         parent |-> 0,
         lineno |-> 1,
         end_lineno |-> 2,
         name |-> <<"l","o","w">>,
         module |-> <<>>,
         level |-> 0,
         names |-> <<>>,
         targets |-> <<>>,
         strings |-> <<>>,
         unparse |-> <<"d","e","f"," ","l","o","w","(","n",")",":","LF"," "," "," "," ","r","e","t","u","r","n"," ","n"," ","+"," ","1">>],
        [type |-> "Return",
         parent |-> 1,
         lineno |-> 2,
         end_lineno |-> 2,
         name |-> <<>>,
         module |-> <<>>,
         level |-> 0,
         names |-> <<>>,
         targets |-> <<>>,
         strings |-> <<>>,
         unparse |-> <<>>]>>]],
     (* 6: broken.py *)
     (*   def f(: *)
     (*       AES = 1 *)
     [parts |-> <<<<"b","r","o","k","e","n",".","p","y">>>>,
      is_file |-> TRUE,
      readable |-> TRUE,
      content |-> <<"d","e","f"," ","f","(",":","LF"," "," "," "," ","A","E","S"," ","="," ","1","LF">>,
      tree |-> [parsed |-> FALSE, nodes |-> <<>>]],
     (* 7: conf.py *)
     (*   import pkg.deep *)
     (*   def setup(flag): *)
     (*       SALT = 1 *)
     (*       if flag: *)
     (*           SECRET_KEY = 2 *)
     [parts |-> <<<<"c","o","n","f",".","p","y">>>>,
      is_file |-> TRUE,
      readable |-> TRUE,
      content |-> <<"i","m","p","o","r","t"," ","p","k","g",".","d","e","e","p","LF","d","e","f"," ","s","e","t","u","p","(","f","l","a","g",")",":","LF"," "," "," "," ","S","A","L","T"," ","="," ","1","LF"," "," "," "," ","i","f"," ","f","l","a","g",":","LF"," "," "," "," "," "," "," "," ","S","E","C","R","E","T","_","K","E","Y"," ","="," ","2","LF">>,
      tree |-> [parsed |-> TRUE, nodes |-> <<
        [type |-> "Import",
         parent |-> 0,
         lineno |-> 1,
         end_lineno |-> 1,
         name |-> <<>>,
         module |-> <<>>,
         level |-> 0,
         names |-> <<[name |-> <<"p","k","g",".","d","e","e","p">>, asname |-> <<>>]>>,
         targets |-> <<>>,
         strings |-> <<>>,
         unparse |-> <<>>],
        [type |-> "FunctionDef",
         parent |-> 0,
         lineno |-> 2,
         end_lineno |-> 5,
         name |-> <<"s","e","t","u","p">>,
         module |-> <<>>,
         level |-> 0,
         names |-> <<>>,
         targets |-> <<>>,
         strings |-> <<>>,
         unparse |-> <<"d","e","f"," ","s","e","t","u","p","(","f","l","a","g",")",":","LF"," "," "," "," ","S","A","L","T"," ","="," ","1","LF"," "," "," "," ","i","f"," ","f","l","a","g",":","LF"," "," "," "," "," "," "," "," ","S","E","C","R","E","T","_","K","E","Y"," ","="," ","2">>],
        [type |-> "Assign",
         parent |-> 2,
         lineno |-> 3,
         end_lineno |-> 3,
         name |-> <<>>,
         module |-> <<>>,
         level |-> 0,
         names |-> <<>>,
         targets |-> <<[isName |-> TRUE, id |-> <<"S","A","L","T">>]>>,
         strings |-> <<>>,
         unparse |-> <<"S","A","L","T"," ","="," ","1">>],
        [type |-> "If",
         parent |-> 2,
         lineno |-> 4,
         end_lineno |-> 5,
         name |-> <<>>,
         module |-> <<>>,
         level |-> 0,
         names |-> <<>>,
         targets |-> <<>>,
         strings |-> <<>>,
         unparse |-> <<>>],
        [type |-> "Assign",
         parent |-> 4,
         lineno |-> 5,
         end_lineno |-> 5,
         name |-> <<>>,
         module |-> <<>>,
         level |-> 0,
         names |-> <<>>,
         targets |-> <<[isName |-> TRUE, id |-> <<"S","E","C","R","E","T","_","K","E","Y">>]>>,
         strings |-> <<>>,
         unparse |-> <<"S","E","C","R","E","T","_","K","E","Y"," ","="," ","2">>]>>]] >>

Files == 1..Len(Disk)

\* the project directory's name
ProjectName == <<"d","e","m","o">>


(***************************************************************************)
(* The state.                                                              *)
(***************************************************************************)
VARIABLES
    \* the environment
    walk,               \* the project's files, in the order rglob yields them
    written,            \* the files the program has written: path -> content
    \* the EncryptionExtractor object
    all_python_files,
    project_modules,
    file_contents,
    file_asts,
    encryption_code,
    \* analyze_project's locals when it returns
    crypto_files,
    dependencies,       \* list(dependencies): the set in its iteration order
    \* main()
    pc,
    output_file,
    analysis,           \* what analyze_project returned: "none", "True", "False"
    returned,           \* what generate_fixed_oracle_file returned, <<>> for nothing
    \* history of this run of main()
    reads,              \* per file, the number of _read_file calls
    extracted,          \* the fragments added to the corpus, with the file of each
    made_dirs,          \* the directories os.makedirs was called for
    opened,             \* the paths opened for writing
    replaced,           \* the content the artifact's path held before it was
                        \* written, as a one-element sequence; else <<>>
    \* one call of a text function on its own
    call,               \* the function called, "none" before the call
    source_text,        \* the text it is given
    source_node,        \* the node given to _extract_node_code: its lineno and
                        \* end_lineno, both 0 when there is none
    result              \* the text it returned

env == <<walk>>
extractor == <<all_python_files, project_modules, file_contents, file_asts,
               encryption_code, crypto_files, dependencies>>
history == <<reads, extracted, made_dirs, opened, replaced>>
single == <<call, source_text, source_node, result>>
vars == <<walk, written, all_python_files, project_modules, file_contents,
          file_asts, encryption_code, crypto_files, dependencies, pc,
          output_file, analysis, returned, reads, extracted, made_dirs,
          opened, replaced, call, source_text, source_node,
          result>>

\* hasattr(ast, 'unparse'): the interpreter is Python 3.9 or later
has_unparse == TRUE

(***************************************************************************)
(* Source index.                                                           *)
(***************************************************************************)
\* py_file.name
NameOf(f) == Disk[f].parts[Len(Disk[f].parts)]

\* PurePath.stem, and the name with_suffix('') leaves: the name up to its
\* last dot, unless that dot starts or ends the name
Stem(name) ==
    LET dots == {i \in 1..Len(name) : name[i] = "."}
    IN  IF dots = {} THEN name
        ELSE LET k == CHOOSE i \in dots : \A j \in dots : j <= i
             IN  IF 1 < k /\ k < Len(name) THEN SubSeq(name, 1, k - 1) ELSE name

\* str(relative_path.with_suffix('')).replace(os.sep, '.')
ModuleName(f) ==
    LET p == Disk[f].parts
    IN  Join([i \in 1..Len(p) |-> IF i = Len(p) THEN Stem(p[i]) ELSE p[i]], <<".">>)

\* d[k] = v
Put(d, k, v) == [x \in DOMAIN d \cup {k} |-> IF x = k THEN v ELSE d[x]]

\* the files rglob("*.py") yields that pass the is_file / hidden-name filter
_scan_python_files(found) ==
    SelectSeq(found, LAMBDA f : Disk[f].is_file /\ ~StartsWith(NameOf(f), <<".">>))

\* project_modules after the loop over all_python_files: a later file
\* overwrites an earlier one's entry
RECURSIVE _build_module_mapping(_, _)
_build_module_mapping(files, modules) ==
    IF files = <<>> THEN modules
    ELSE LET py_file == Head(files)
             module_name == ModuleName(py_file)
             file_name == Stem(NameOf(py_file))
         IN  _build_module_mapping(Tail(files),
                 Put(Put(modules, module_name, py_file), file_name, py_file))

\* the value ast.parse never returns: None
NoTree == [parsed |-> FALSE, nodes |-> <<>>]

\* (content, ast_tree), or ("", None) when the file cannot be read
_read_file(f) ==
    IF Disk[f].readable
    THEN [content |-> Disk[f].content, tree |-> Disk[f].tree]
    ELSE [content |-> <<>>, tree |-> NoTree]

(***************************************************************************)
(* Relevance classifier.                                                   *)
(***************************************************************************)
_is_encryption_related(name) ==
    /\ name # <<>>
    /\ \E keyword \in ENCRYPTION_KEYWORDS : Contains(Lower(name), keyword)

_is_crypto_library(module_name) ==
    /\ module_name # <<>>
    /\ \E lib \in CRYPTO_LIBRARIES : Contains(module_name, lib)

\* with ast.unparse the function's reconstructed source, else its name and
\* the string-literal statements of its body
_function_contains_crypto_operations(func_node) ==
    LET func_source ==
            IF has_unparse THEN func_node.unparse
            ELSE func_node.name
                 \o Flatten([i \in 1..Len(func_node.strings) |->
                                <<" ">> \o func_node.strings[i]])
    IN  \E pattern \in crypto_patterns : Contains(Lower(func_source), pattern)

\* node j lies below node i of the tree
RECURSIVE IsBelow(_, _, _)
IsBelow(nodes, j, i) ==
    /\ j # 0
    /\ \/ nodes[j].parent = i
       \/ IsBelow(nodes, nodes[j].parent, i)

\* ast.walk(class_node) meets a crypto-related FunctionDef
_class_contains_crypto_methods(nodes, c) ==
    \E j \in 1..Len(nodes) :
        /\ IsBelow(nodes, j, c)
        /\ nodes[j].type = "FunctionDef"
        /\ \/ _is_encryption_related(nodes[j].name)
           \/ _function_contains_crypto_operations(nodes[j])

_assignment_contains_crypto_values(assign_node) ==
    /\ has_unparse
    /\ \E keyword \in ENCRYPTION_KEYWORDS :
           Contains(Lower(assign_node.unparse), keyword)

_file_contains_crypto(content, ast_tree) ==
    LET content_lower == Lower(content)
        nodes == ast_tree.nodes
    IN  \/ \E keyword \in ENCRYPTION_KEYWORDS : Contains(content_lower, keyword)
        \/ \E lib \in CRYPTO_LIBRARIES : Contains(content_lower, Lower(lib))
        \/ /\ ast_tree.parsed
           /\ \E i \in 1..Len(nodes) :
                \/ /\ nodes[i].type = "FunctionDef"
                   /\ \/ _is_encryption_related(nodes[i].name)
                      \/ _function_contains_crypto_operations(nodes[i])
                \/ /\ nodes[i].type = "ClassDef"
                   /\ \/ _is_encryption_related(nodes[i].name)
                      \/ _class_contains_crypto_methods(nodes, i)

(***************************************************************************)
(* Syntax tree extractor.                                                  *)
(***************************************************************************)
\* an internal import becomes a comment with the note; any other statement
\* is returned as it is
_fix_import_statement(import_stmt) ==
    LET parts == Words(Strip(import_stmt))
        marked == <<"#"," ">> \o import_stmt \o INTERNAL_NOTE
    IN  IF Contains(import_stmt, <<"f","r","o","m"," ">>) /\ Contains(import_stmt, <<" ","i","m","p","o","r","t"," ">>)
        THEN IF /\ Len(parts) >= 4
                /\ parts[1] = <<"f","r","o","m">>
                /\ parts[3] = <<"i","m","p","o","r","t">>
                /\ parts[2] \in DOMAIN project_modules
             THEN marked ELSE import_stmt
        ELSE IF Contains(import_stmt, <<"i","m","p","o","r","t"," ">>) /\ ~StartsWith(import_stmt, <<"f","r","o","m">>)
        THEN IF /\ Len(parts) >= 2
                /\ parts[1] = <<"i","m","p","o","r","t">>
                /\ SplitChar(parts[2], ".")[1] \in DOMAIN project_modules
             THEN marked ELSE import_stmt
        ELSE import_stmt

\* " as <asname>" when the alias has one
AsClause(alias) == IF alias.asname # <<>> THEN <<" ","a","s"," ">> \o alias.asname ELSE <<>>

\* import_stmt: the statement rebuilt for one alias of an import node
ImportStatement(node, alias) ==
    IF node.type = "Import"
    THEN <<"i","m","p","o","r","t"," ">> \o alias.name \o AsClause(alias)
    ELSE <<"f","r","o","m"," ">> \o [i \in 1..node.level |-> "."] \o node.module
         \o <<" ","i","m","p","o","r","t"," ">> \o alias.name \o AsClause(alias)

\* the statements one Import / ImportFrom node adds to the list
ImportsOfNode(node) ==
    IF node.type = "Import"
    THEN Flatten([k \in 1..Len(node.names) |->
            LET alias == node.names[k]
                import_stmt == ImportStatement(node, alias)
            IN  IF \/ _is_crypto_library(alias.name)
                   \/ _is_encryption_related(alias.name)
                   \/ alias.name \in STANDARD_MODULES
                THEN <<_fix_import_statement(import_stmt)>> ELSE <<>>])
    ELSE IF node.type = "ImportFrom"
    THEN Flatten([k \in 1..Len(node.names) |->
            LET alias == node.names[k]
                module == node.module
                import_stmt == ImportStatement(node, alias)
            IN  IF \/ _is_crypto_library(module)
                   \/ _is_encryption_related(alias.name)
                   \/ _is_encryption_related(module)
                   \/ module \in STANDARD_MODULES
                   \/ module \in DOMAIN project_modules
                THEN <<_fix_import_statement(import_stmt)>> ELSE <<>>])
    ELSE <<>>

_extract_imports_from_ast(ast_tree) ==
    Flatten([i \in 1..Len(ast_tree.nodes) |-> ImportsOfNode(ast_tree.nodes[i])])

\* fix_indentation = False: the text is left as it is
_fix_code_indentation_Off(code) == code

\* strip the first non-blank line's indentation width from every line
_fix_code_indentation(code) ==
    LET lines == SplitChar(code, "LF")
        solid == {i \in 1..Len(lines) : Strip(lines[i]) # <<>>}
        first_line_indent ==
            IF solid = {} THEN 0
            ELSE IndentOf(lines[CHOOSE i \in solid : \A j \in solid : i <= j])
        fixed_lines ==
            [i \in 1..Len(lines) |->
                IF Strip(lines[i]) # <<>>
                THEN IF Len(lines[i]) >= first_line_indent
                     THEN SubSeq(lines[i], first_line_indent + 1, Len(lines[i]))
                     ELSE LStrip(lines[i])
                ELSE <<>>]
    IN  Join(fixed_lines, <<"LF">>)

\* the last line (0-based) of a node without end_lineno: the lines after
\* the first that are blank or indented deeper than it
IndentEnd(lines, start_line) ==
    IF start_line >= Len(lines) THEN start_line
    ELSE LET base_indent == IndentOf(lines[start_line + 1])
             stops == {i \in (start_line + 1)..(Len(lines) - 1) :
                          /\ Strip(lines[i + 1]) # <<>>
                          /\ IndentOf(lines[i + 1]) <= base_indent}
         IN  IF stops = {} THEN Len(lines) - 1
             ELSE (CHOOSE i \in stops : \A j \in stops : i <= j) - 1

\* the node's lines, whole, joined again and with the indentation fixed
_extract_node_code(node, content) ==
    LET lines == SplitLines(content)
        start_line == node.lineno - 1
        end_line == IF node.end_lineno # 0 THEN node.end_lineno - 1
                    ELSE IndentEnd(lines, start_line)
        extracted_code == Join(SubSeq(lines, start_line + 1, end_line + 1), <<"LF">>)
    IN  _fix_code_indentation(extracted_code)

_extract_functions_from_ast(ast_tree, content) ==
    LET nodes == ast_tree.nodes
    IN  Flatten([i \in 1..Len(nodes) |->
            IF /\ nodes[i].type = "FunctionDef"
               /\ \/ _is_encryption_related(nodes[i].name)
                  \/ _function_contains_crypto_operations(nodes[i])
               /\ _extract_node_code(nodes[i], content) # <<>>
            THEN <<_extract_node_code(nodes[i], content)>> ELSE <<>>])

_extract_classes_from_ast(ast_tree, content) ==
    LET nodes == ast_tree.nodes
    IN  Flatten([i \in 1..Len(nodes) |->
            IF /\ nodes[i].type = "ClassDef"
               /\ \/ _is_encryption_related(nodes[i].name)
                  \/ _class_contains_crypto_methods(nodes, i)
               /\ _extract_node_code(nodes[i], content) # <<>>
            THEN <<_extract_node_code(nodes[i], content)>> ELSE <<>>])

\* parent_nodes: the nodes that have the assignment among their children
ParentTypes(nodes, i) ==
    {IF nodes[i].parent = 0 THEN "Module" ELSE nodes[nodes[i].parent].type}

\* is_module_level: no parent of the node is a FunctionDef or a ClassDef
IsModuleLevel(nodes, i) ==
    \A parent \in ParentTypes(nodes, i) : parent \notin {"FunctionDef", "ClassDef"}

\* the Assign nodes (by index, in walk order, once per qualifying target)
\* that _extract_constants_from_ast takes
ConstantNodes(ast_tree, content) ==
    LET nodes == ast_tree.nodes
    IN  Flatten([i \in 1..Len(nodes) |->
            IF nodes[i].type = "Assign" /\ IsModuleLevel(nodes, i)
            THEN Flatten([t \in 1..Len(nodes[i].targets) |->
                    LET target == nodes[i].targets[t]
                    IN  IF /\ target.isName
                           /\ IsUpper(target.id)
                           /\ \/ _is_encryption_related(target.id)
                              \/ _assignment_contains_crypto_values(nodes[i])
                           /\ _extract_node_code(nodes[i], content) # <<>>
                        THEN <<i>> ELSE <<>>])
            ELSE <<>>])

_extract_constants_from_ast(ast_tree, content) ==
    LET taken == ConstantNodes(ast_tree, content)
    IN  [k \in 1..Len(taken) |-> _extract_node_code(ast_tree.nodes[taken[k]], content)]


(***************************************************************************)
(* Dependency resolver.                                                    *)
(***************************************************************************)
\* DependenciesOfNode without the test that the file is not a crypto file
DependenciesOfNode_KeepsPrimary(node, files) ==
    IF node.type = "ImportFrom" /\ node.module # <<>>
    THEN IF node.module \in DOMAIN project_modules
         THEN {project_modules[node.module]} ELSE {}
    ELSE IF node.type = "Import"
    THEN UNION {
            LET module_name == SplitChar(node.names[k].name, ".")[1]
            IN  IF module_name \in DOMAIN project_modules
                THEN {project_modules[module_name]} ELSE {}
            : k \in 1..Len(node.names) }
    ELSE {}

\* the project files one import node of a crypto file adds to the set
DependenciesOfNode(node, files) ==
    IF node.type = "ImportFrom" /\ node.module # <<>>
    THEN IF /\ node.module \in DOMAIN project_modules
            /\ project_modules[node.module] \notin Range(files)
         THEN {project_modules[node.module]} ELSE {}
    ELSE IF node.type = "Import"
    THEN UNION {
            LET module_name == SplitChar(node.names[k].name, ".")[1]
            IN  IF /\ module_name \in DOMAIN project_modules
                   /\ project_modules[module_name] \notin Range(files)
                THEN {project_modules[module_name]} ELSE {}
            : k \in 1..Len(node.names) }
    ELSE {}

\* the files the given files import, the given files left out
ImportedBy(files) ==
    UNION { LET ast_tree == _read_file(files[c]).tree
            IN  UNION { DependenciesOfNode(ast_tree.nodes[i], files)
                        : i \in 1..Len(ast_tree.nodes) }
            : c \in 1..Len(files) }

\* _extract_project_dependencies following the imports of the dependencies
\* it finds as well
_extract_project_dependencies_Transitive(files) ==
    LET first == ImportedBy(files)
        order == CHOOSE q \in Orders(first) : TRUE
    IN  first \cup ImportedBy(files \o order)

\* the set of files the crypto files import, without the crypto files; each
\* crypto file is read and parsed again for it
_extract_project_dependencies(files) ==
    UNION { LET ast_tree == _read_file(files[c]).tree
            IN  IF ~ast_tree.parsed THEN {}
                ELSE UNION { DependenciesOfNode(ast_tree.nodes[i], files)
                             : i \in 1..Len(ast_tree.nodes) }
            : c \in 1..Len(files) }

(***************************************************************************)
(* analyze_project.                                                        *)
(***************************************************************************)
EmptyCode ==
    [imports |-> {}, functions |-> <<>>, classes |-> <<>>, constants |-> <<>>,
     helper_functions |-> <<>>]

\* CryptoFiles taking every file that has a tree
CryptoFiles_EveryParsedFile(files, contents, asts) ==
    SelectSeq(files, LAMBDA f : asts[f].parsed)

\* what analyze_project returns
AnalysisResult_AlwaysTrue(found) == "True"

AnalysisResult(found) == IF found = <<>> THEN "False" ELSE "True"

\* the files of the first loop that have a tree and contain crypto
CryptoFiles(files, contents, asts) ==
    SelectSeq(files, LAMBDA f : /\ asts[f].parsed
                                /\ _file_contains_crypto(contents[f], asts[f]))

\* what the second loop's body extracts from one file
FragmentsOf(content, ast_tree) ==
    IF ast_tree.parsed
    THEN [imports |-> _extract_imports_from_ast(ast_tree),
          functions |-> _extract_functions_from_ast(ast_tree, content),
          classes |-> _extract_classes_from_ast(ast_tree, content),
          constants |-> _extract_constants_from_ast(ast_tree, content)]
    ELSE [imports |-> <<>>, functions |-> <<>>, classes |-> <<>>, constants |-> <<>>]

\* encryption_code after the second loop's body for one file
AddFile(code, got, is_dependency) ==
    [imports |-> code.imports \cup Range(got.imports),
     helper_functions |-> IF is_dependency THEN code.helper_functions \o got.functions
                          ELSE code.helper_functions,
     functions |-> IF is_dependency THEN code.functions
                   ELSE code.functions \o got.functions,
     classes |-> code.classes \o got.classes,
     constants |-> code.constants \o got.constants]

\* encryption_code after the second loop over all_files_to_analyze
RECURSIVE AnalyzeFiles(_, _, _, _, _)
AnalyzeFiles(files, deps, contents, asts, code) ==
    IF files = <<>> THEN code
    ELSE LET file_path == Head(files)
         IN  AnalyzeFiles(Tail(files), deps, contents, asts,
                 AddFile(code, FragmentsOf(contents[file_path], asts[file_path]),
                         file_path \in deps))

\* history: the fragments the second loop adds, each with its file and the
\* bucket of encryption_code it goes to
FragmentLog(files, deps, contents, asts) ==
    UNION { LET got == FragmentsOf(contents[f], asts[f])
                tag(list, category) ==
                    {[file |-> f, category |-> category, text |-> list[i]]
                     : i \in 1..Len(list)}
            IN  tag(got.imports, "import")
                \cup tag(got.functions,
                         IF f \in deps THEN "helper_function" ELSE "function")
                \cup tag(got.classes, "class")
                \cup tag(got.constants, "constant")
            : f \in Range(files) }

\* the number of times f occurs in a list
Count(list, f) == Cardinality({i \in 1..Len(list) : list[i] = f})

(***************************************************************************)
(* generate_fixed_oracle_file.                                             *)
(***************************************************************************)
\* os.path.dirname
Dirname(path) ==
    LET slashes == {i \in 1..Len(path) : path[i] = "/"}
    IN  IF slashes = {} THEN <<>>
        ELSE LET k == CHOOSE i \in slashes : \A j \in slashes : j <= i
                 head == SubSeq(path, 1, k)
                 solid == {i \in 1..k : head[i] # "/"}
             IN  IF solid = {} THEN head
                 ELSE SubSeq(head, 1, CHOOSE i \in solid : \A j \in solid : j <= i)

\* the path the function opens for writing, whatever path it was given
HARD_CODED_PATH == <<"C",":","BS","U","s","e","r","s","BS","u","s","e","r","BS","D","e","s","k","t","o","p","BS","U53F0","U5927","U5BC6","U78BC","U5B78","BS","U5C08","U984C","BS","e","c","b","_","e","n","c","r","y","p","t",".","p","y">>

Rule == <<"#"," ">> \o [i \in 1..50 |-> "="]

\* a section whose entries follow each other, closed by one empty line
ImportSection(title, entries) ==
    IF entries = <<>> THEN <<>> ELSE <<title, Rule>> \o entries \o << <<>> >>

\* a section that walks its entries from the last to the first
CodeSection_Reversed(title, entries) ==
    IF entries = <<>> THEN <<>>
    ELSE <<title, Rule>>
         \o Flatten([i \in 1..Len(entries) |-> <<entries[Len(entries) + 1 - i], <<>> >>])

\* a section with an empty line after each entry
CodeSection(title, entries) ==
    IF entries = <<>> THEN <<>>
    ELSE <<title, Rule>>
         \o Flatten([i \in 1..Len(entries) |-> <<entries[i], <<>> >>])

\* output_content: the artifact's lines (a fragment is one entry)
OutputContent(code) ==
    LET ordered == Sorted(code.imports)
        project_imports == SelectSeq(ordered, LAMBDA imp : Contains(imp, INTERNAL_MARK))
        standard_imports == SelectSeq(ordered, LAMBDA imp : ~Contains(imp, INTERNAL_MARK))
    IN  << <<"#","!","/","u","s","r","/","b","i","n","/","e","n","v"," ","p","y","t","h","o","n","3">>,
           <<"DQ","DQ","DQ">>,
           <<"U5F9E"," ">> \o ProjectName \o <<" ","U63D0","U53D6","U7684","U52A0","U5BC6"," ","O","r","a","c","l","e","UFF08","U4FEE","U5FA9","U7248","U672C","UFF09">>,
           <<"U6B64","U6587","U4EF6","U89E3","U6C7A","U4E86","U5C0E","U5165","U4F9D","U8CF4","U548C","U4EE3","U78BC","U683C","U5F0F","U554F","U984C">>,
           <<"DQ","DQ","DQ">>,
           <<>> >>
        \o ImportSection(<<"#"," ","U6A19","U6E96","U5EAB","U548C","U7B2C","U4E09","U65B9","U5EAB","U5C0E","U5165">>, standard_imports)
        \o ImportSection(<<"#"," ","U9805","U76EE","U5167","U90E8","U5C0E","U5165","UFF08","U76F8","U95DC","U4EE3","U78BC","U5DF2","U5305","U542B","U5728","U4E0B","U65B9","UFF09">>, project_imports)
        \o CodeSection(<<"#"," ","U5E38","U91CF","U5B9A","U7FA9">>, code.constants)
        \o CodeSection(<<"#"," ","U8F14","U52A9","U51FD","U6578","UFF08","U4F86","U81EA","U9805","U76EE","U4F9D","U8CF4","UFF09">>, code.helper_functions)
        \o CodeSection(<<"#"," ","U4E3B","U8981","U985E","U5B9A","U7FA9">>, code.classes)
        \o CodeSection(<<"#"," ","U4E3B","U8981","U51FD","U6578","U5B9A","U7FA9">>, code.functions)
        \o << <<"#"," ","U6E2C","U8A66","U4EE3","U78BC">>,
              Rule,
              <<"i","f"," ","_","_","n","a","m","e","_","_"," ","=","="," ","'","_","_","m","a","i","n","_","_","'",":">>,
              <<" "," "," "," ","p","r","i","n","t","(","'","U2705"," ","U4FEE","U5FA9","U7248","U672C","U7684","U52A0","U5BC6"," ","O","r","a","c","l","e"," ","U5DF2","U52A0","U8F09","'",")">>,
              <<" "," "," "," ">>,
              <<" "," "," "," ","#"," ","U5617","U8A66","U5275","U5EFA","U52A0","U5BC6","U5BE6","U4F8B">>,
              <<" "," "," "," ","t","r","y",":">>,
              <<" "," "," "," "," "," "," "," ","#"," ","U67E5","U627E","U53EF","U7528","U7684","U52A0","U5BC6","U985E">> >>
        \o (IF code.classes # <<>>
            THEN << <<" "," "," "," "," "," "," "," ","c","i","p","h","e","r"," ","="," ","C","i","p","h","e","r","(",")"," "," ","#"," ","U5047","U8A2D","U5B58","U5728"," ","C","i","p","h","e","r"," ","U985E">>,
                    <<" "," "," "," "," "," "," "," ","p","r","i","n","t","(","'","U2705"," ","U6210","U529F","U5275","U5EFA"," ","C","i","p","h","e","r"," ","U5BE6","U4F8B","'",")">>,
                    <<" "," "," "," "," "," "," "," ">>,
                    <<" "," "," "," "," "," "," "," ","#"," ","U6E2C","U8A66"," ","E","C","B"," ","U6A21","U5F0F">>,
                    <<" "," "," "," "," "," "," "," ","c","i","p","h","e","r",".","s","e","t","_","m","o","d","e","(","'","E","C","B","'",")">>,
                    <<" "," "," "," "," "," "," "," ","p","r","i","n","t","(","'","U2705"," ","E","C","B"," ","U6A21","U5F0F","U8A2D","U7F6E","U6210","U529F","'",")">> >>
            ELSE << <<" "," "," "," "," "," "," "," ","p","r","i","n","t","(","'","U2139","UFE0F"," ","U672A","U627E","U5230","U4E3B","U8981","U7684","U52A0","U5BC6","U985E","'",")">> >>)
        \o << <<" "," "," "," ","e","x","c","e","p","t"," ","E","x","c","e","p","t","i","o","n"," ","a","s"," ","e",":">>,
              <<" "," "," "," "," "," "," "," ","p","r","i","n","t","(","f","'","U26A0","UFE0F"," ","U6E2C","U8A66","U904E","U7A0B","U4E2D","U51FA","U73FE","U932F","U8AA4",":"," ","{","e","}","'",")">> >>

(***************************************************************************)
(* main() and the calls it makes.                                          *)
(***************************************************************************)
\* what the user may type at the output-path prompt
TypedOutputs == { <<>>, <<"o","u","t","/","o","r","a","c","l","e",".","p","y">> }
\* no node was given
NoNode == [lineno |-> 0, end_lineno |-> 0]

DefaultOutput == <<"e","c","b","_","e","n","c","r","y","p","t",".","p","y">>

Init ==
    /\ \E S \in SUBSET Files :
          /\ Cardinality(S) <= MaxFiles
          /\ walk \in Orders(S)
    /\ written = <<>>
    /\ all_python_files = <<>>
    /\ project_modules = <<>>
    /\ file_contents = <<>>
    /\ file_asts = <<>>
    /\ encryption_code = EmptyCode
    /\ crypto_files = <<>>
    /\ dependencies = <<>>
    /\ pc = "start"
    /\ output_file = <<>>
    /\ analysis = "none"
    /\ returned = <<>>
    /\ reads = [f \in Files |-> 0]
    /\ extracted = {}
    /\ made_dirs = {}
    /\ opened = {}
    /\ replaced = <<>>
    /\ call = "none"
    /\ source_text = <<>>
    /\ source_node = NoNode
    /\ result = <<>>

\* main: the path typed is not a directory
MainNoDirectory ==
    /\ pc = "start"
    /\ pc' = "done"
    /\ UNCHANGED <<single, env, written, extractor, output_file, analysis, returned,
                   history>>

\* main: the prompts, then EncryptionExtractor(project_path)
MainConstruct ==
    /\ pc = "start"
    /\ \E typed \in TypedOutputs :
          output_file' = IF Strip(typed) = <<>> THEN DefaultOutput ELSE Strip(typed)
    /\ all_python_files' = _scan_python_files(walk)
    /\ project_modules' = _build_module_mapping(all_python_files', <<>>)
    /\ pc' = "constructed"
    /\ UNCHANGED <<single, env, written, file_contents, file_asts, encryption_code,
                   crypto_files, dependencies, analysis, returned, history>>

\* extractor.analyze_project()
AnalyzeProject ==
    /\ pc = "constructed"
    /\ LET got == [f \in Range(all_python_files) |-> _read_file(f)]
           contents == [f \in DOMAIN got |-> got[f].content]
           asts == [f \in DOMAIN got |-> got[f].tree]
           found == CryptoFiles(all_python_files, contents, asts)
       IN  /\ file_contents' = contents
           /\ file_asts' = asts
           /\ crypto_files' = found
           /\ analysis' = AnalysisResult(found)
           /\ IF analysis' = "False"
              THEN /\ reads' = [f \in Files |-> reads[f] + Count(all_python_files, f)]
                   /\ UNCHANGED <<dependencies, encryption_code, extracted>>
              ELSE /\ \E order \in Orders(_extract_project_dependencies(found)) :
                         /\ dependencies' = order
                         /\ encryption_code' =
                                AnalyzeFiles(found \o order, Range(order), contents,
                                             asts, encryption_code)
                         /\ extracted' = extracted
                                \cup FragmentLog(found \o order, Range(order),
                                                 contents, asts)
                   /\ reads' = [f \in Files |-> reads[f] + Count(all_python_files, f)
                                                + Count(found, f)]
    /\ pc' = "analyzed"
    /\ UNCHANGED <<single, env, written, all_python_files, project_modules, output_file,
                   returned, made_dirs, opened, replaced>>

\* main: analyze_project returned False
MainNothingFound ==
    /\ pc = "analyzed"
    /\ analysis = "False"
    /\ pc' = "done"
    /\ UNCHANGED <<single, env, written, extractor, output_file, analysis, returned,
                   history>>

\* os.makedirs(os.path.dirname(output_path) or '.', exist_ok=True)
MakeDirs(output_path) ==
    LET directory == Dirname(output_path)
    IN  made_dirs' = made_dirs \cup {IF directory # <<>> THEN directory ELSE <<".">>}

\* extractor.generate_fixed_oracle_file(output_file): the file is written
GenerateOracle ==
    /\ pc = "analyzed"
    /\ analysis = "True"
    /\ MakeDirs(output_file)
    /\ LET content == Join(OutputContent(encryption_code), <<"LF">>)
           output_path == HARD_CODED_PATH
       IN  /\ opened' = opened \cup {output_path}
           /\ replaced' = IF output_path \in DOMAIN written
                          THEN <<written[output_path]>> ELSE <<>>
           /\ written' = Put(written, output_path, content)
           /\ returned' = output_path
    /\ pc' = "done"
    /\ UNCHANGED <<single, env, extractor, output_file, analysis, reads, extracted>>

\* extractor.generate_fixed_oracle_file(output_file): open() raises, as it
\* does where the directory of the hard-coded path does not exist; main
\* catches the exception and reports it
GenerateOracleFails ==
    /\ pc = "analyzed"
    /\ analysis = "True"
    /\ MakeDirs(output_file)
    /\ pc' = "done"
    /\ UNCHANGED <<single, env, written, extractor, output_file, analysis, returned,
                   reads, extracted, opened, replaced>>

\* the program is started again on the unchanged project
Rerun ==
    /\ pc = "done"
    /\ pc' = "start"
    /\ all_python_files' = <<>>
    /\ project_modules' = <<>>
    /\ file_contents' = <<>>
    /\ file_asts' = <<>>
    /\ encryption_code' = EmptyCode
    /\ crypto_files' = <<>>
    /\ dependencies' = <<>>
    /\ output_file' = <<>>
    /\ analysis' = "none"
    /\ returned' = <<>>
    /\ reads' = [f \in Files |-> 0]
    /\ extracted' = {}
    /\ made_dirs' = {}
    /\ opened' = {}
    /\ replaced' = <<>>
    /\ UNCHANGED <<single, env, written>>

Next ==
    \/ MainNoDirectory
    \/ MainConstruct
    \/ AnalyzeProject
    \/ MainNothingFound
    \/ GenerateOracle
    \/ GenerateOracleFails
    \/ Rerun

Spec == Init /\ [][Next]_vars

(***************************************************************************)
(* The text functions called on their own: _fix_code_indentation and       *)
(* _extract_node_code are pure, so they are given every text of at most    *)
(* MaxLines lines of at most MaxWidth characters, a character being a      *)
(* blank or a letter, and every span of lines of that text.                *)
(***************************************************************************)
\* the lines of at most MaxWidth characters
ShortLines == UNION {[1..n -> {" ", "a"}] : n \in 0..MaxWidth}

\* the texts of one to MaxLines such lines, joined by line feeds
ShortTexts ==
    {Join(lines, <<"LF">>) : lines \in UNION {[1..n -> ShortLines] : n \in 1..MaxLines}}

InitSingle ==
    /\ walk = <<>>
    /\ written = <<>>
    /\ all_python_files = <<>>
    /\ project_modules = <<>>
    /\ file_contents = <<>>
    /\ file_asts = <<>>
    /\ encryption_code = EmptyCode
    /\ crypto_files = <<>>
    /\ dependencies = <<>>
    /\ pc = "start"
    /\ output_file = <<>>
    /\ analysis = "none"
    /\ returned = <<>>
    /\ reads = [f \in Files |-> 0]
    /\ extracted = {}
    /\ made_dirs = {}
    /\ opened = {}
    /\ replaced = <<>>
    /\ call = "none"
    /\ source_text \in ShortTexts
    /\ source_node = NoNode
    /\ result = <<>>

\* self._fix_code_indentation(source_text)
FixCodeIndentation ==
    /\ call = "none"
    /\ call' = "_fix_code_indentation"
    /\ result' = _fix_code_indentation(source_text)
    /\ UNCHANGED <<source_text, source_node, env, written, extractor, pc, output_file, analysis,
                   returned, history>>

\* self._extract_node_code(node, content) for a node that spans the lines
\* lineno to end_lineno of content
ExtractNodeCode ==
    /\ call = "none"
    /\ \E lineno \in 1..Len(SplitLines(source_text)) :
          \E end_lineno \in lineno..Len(SplitLines(source_text)) :
              /\ source_node' = [lineno |-> lineno, end_lineno |-> end_lineno]
              /\ result' = _extract_node_code(source_node', source_text)
    /\ call' = "_extract_node_code"
    /\ UNCHANGED <<source_text, env, written, extractor, pc, output_file, analysis,
                   returned, history>>

NextSingle ==
    \/ FixCodeIndentation
    \/ ExtractNodeCode

SpecSingle == InitSingle /\ [][NextSingle]_vars

(***************************************************************************)
(* generate_fixed_oracle_file called on its own: it renders whatever       *)
(* corpus the extractor holds, so it is given every corpus whose buckets   *)
(* are drawn from the fragments below.                                     *)
(***************************************************************************)
\* the fragments a bucket of the corpus may hold
Pool ==
    [imports |-> {<<"i","m","p","o","r","t"," ","o","s">>,
                  <<"#"," ","f","r","o","m"," ","c","i","p","h","e","r"," ","i","m","p","o","r","t"," ","C","i","p","h","e","r">> \o INTERNAL_NOTE},
     constants |-> {<<"K","E","Y","_","A"," ","="," ","1">>, <<"K","E","Y","_","B"," ","="," ","2">>},
     helper_functions |-> {<<"d","e","f"," ","p","a","d","(","x",")",":">> \o <<"LF">> \o <<" "," "," "," ","r","e","t","u","r","n"," ","x">>,
                           <<"d","e","f"," ","u","n","p","a","d","(","x",")",":">> \o <<"LF">> \o <<" "," "," "," ","r","e","t","u","r","n"," ","x">>},
     classes |-> {<<"c","l","a","s","s"," ","B","o","x",":">> \o <<"LF">> \o <<" "," "," "," ","p","a","s","s">>,
                  <<"c","l","a","s","s"," ","C","i","p","h","e","r",":">> \o <<"LF">> \o <<" "," "," "," ","p","a","s","s">>},
     functions |-> {<<"d","e","f"," ","e","n","c","r","y","p","t","(","x",")",":">> \o <<"LF">> \o <<" "," "," "," ","r","e","t","u","r","n"," ","x">>,
                    <<"d","e","f"," ","d","e","c","r","y","p","t","(","x",")",":">> \o <<"LF">> \o <<" "," "," "," ","r","e","t","u","r","n"," ","x">>}]

\* the lists that hold some of the fragments of S, each once, in any order
Lists(S) == UNION {Orders(T) : T \in SUBSET S}

InitRender ==
    /\ walk = <<>>
    /\ written = <<>>
    /\ all_python_files = <<>>
    /\ project_modules = <<>>
    /\ file_contents = <<>>
    /\ file_asts = <<>>
    /\ \E imports \in SUBSET Pool.imports :
       \E constants \in Lists(Pool.constants) :
       \E helper_functions \in Lists(Pool.helper_functions) :
       \E classes \in Lists(Pool.classes) :
       \E functions \in Lists(Pool.functions) :
           encryption_code = [imports |-> imports, functions |-> functions,
                              classes |-> classes, constants |-> constants,
                              helper_functions |-> helper_functions]
    /\ crypto_files = <<>>
    /\ dependencies = <<>>
    /\ pc = "analyzed"
    /\ output_file = DefaultOutput
    /\ analysis = "True"
    /\ returned = <<>>
    /\ reads = [f \in Files |-> 0]
    /\ extracted = {}
    /\ made_dirs = {}
    /\ opened = {}
    /\ replaced = <<>>
    /\ call = "none"
    /\ source_text = <<>>
    /\ source_node = NoNode
    /\ result = <<>>

NextRender ==
    \/ GenerateOracle
    \/ GenerateOracleFails

SpecRender == InitRender /\ [][NextRender]_vars


(***************************************************************************)
(* Vocabulary of the properties.                                           *)
(***************************************************************************)
\* analyze_project has returned
Analyzed == analysis # "none"

\* the files the second loop of analyze_project went through
Submitted == Range(crypto_files) \cup Range(dependencies)

\* the fragments of the corpus that were taken from file f
FragmentsFrom(f) == {e \in extracted : e.file = f}

\* file f's raw text holds a keyword (in any case)
HasKeywordText(f) ==
    \E keyword \in ENCRYPTION_KEYWORDS : Contains(Lower(Disk[f].content), keyword)

\* file f: no keyword and no library name in the raw text, and no function
\* or class of its tree meets the crypto rules
PlainFile(f) ==
    LET nodes == Disk[f].tree.nodes
    IN  /\ ~HasKeywordText(f)
        /\ \A lib \in CRYPTO_LIBRARIES : ~Contains(Lower(Disk[f].content), Lower(lib))
        /\ \A i \in 1..Len(nodes) :
              /\ nodes[i].type = "FunctionDef" =>
                    /\ ~_is_encryption_related(nodes[i].name)
                    /\ ~_function_contains_crypto_operations(nodes[i])
              /\ nodes[i].type = "ClassDef" =>
                    /\ ~_is_encryption_related(nodes[i].name)
                    /\ ~_class_contains_crypto_methods(nodes, i)

\* the names under which an import node's alias may be looked up in the
\* module index: the module of a from-import; for "import a.b" both a.b and a
LookupNames(node, alias) ==
    IF node.type = "ImportFrom" THEN {node.module} \ {<<>>}
    ELSE {alias.name, SplitChar(alias.name, ".")[1]}

\* file p holds an import declaration that the module index resolves to d
Imports(p, d) ==
    LET nodes == Disk[p].tree.nodes
    IN  \E i \in 1..Len(nodes) :
            /\ nodes[i].type \in {"Import", "ImportFrom"}
            /\ \E k \in 1..Len(nodes[i].names) :
                  \E name \in LookupNames(nodes[i], nodes[i].names[k]) :
                      /\ name \in DOMAIN project_modules
                      /\ project_modules[name] = d

\* node i of the tree lies in the body of a function or a class, at any depth
Enclosed(nodes, i) ==
    \E j \in 1..Len(nodes) :
        /\ nodes[j].type \in {"FunctionDef", "AsyncFunctionDef", "ClassDef"}
        /\ IsBelow(nodes, i, j)

\* the lines of the artifact written by this run
ArtifactLines == SplitChar(written[HARD_CODED_PATH], "LF")

\* this run wrote the artifact
Generated == pc = "done" /\ returned # <<>>

(***************************************************************************)
(* C1.  A discovered file whose parse fails but whose raw text holds a     *)
(* keyword is classified relevant (it is in the primary file set) and      *)
(* contributes no structural fragment to the corpus.                       *)
(* The code tests relevance only for a file that has a tree.               *)
(***************************************************************************)
C1_UnparsableKeywordFileIsPrimary ==
    Analyzed =>
        \A f \in Range(all_python_files) :
            (~file_asts[f].parsed /\ HasKeywordText(f)) =>
                /\ f \in Range(crypto_files)
                /\ FragmentsFrom(f) = {}

(***************************************************************************)
(* C2.  generate_fixed_oracle_file(P) makes P's directory, writes the      *)
(* artifact at P and no other file, and returns P.                         *)
(* The code opens a hard-coded path instead of P and returns that.         *)
(***************************************************************************)
C2_ArtifactAtGivenPath ==
    Generated =>
        /\ (IF Dirname(output_file) # <<>> THEN Dirname(output_file) ELSE <<".">>)
               \in made_dirs
        /\ output_file \in DOMAIN written
        /\ opened = {output_file}
        /\ returned = output_file

(***************************************************************************)
(* C3.  Running the pipeline again on the unchanged project writes the     *)
(* same artifact, byte for byte, also when two or more dependency files    *)
(* contribute fragments.                                                   *)
(* The code walks the dependency set in its iteration order.               *)
(***************************************************************************)
C3_RerunWritesSameArtifact ==
    (Generated /\ replaced # <<>>) =>
        written[HARD_CODED_PATH] = replaced[1]

(***************************************************************************)
(* C4.  As specified: a plain file (no keyword, no library name, no crypto *)
(* function or class) is not relevant and no fragment of any category in   *)
(* the corpus is taken from it, also when a primary file imports it.       *)
(***************************************************************************)
C4_PlainFileNeverInCorpus ==
    Analyzed =>
        \A f \in Range(all_python_files) :
            PlainFile(f) =>
                /\ f \notin Range(crypto_files)
                /\ FragmentsFrom(f) = {}

(***************************************************************************)
(* C4, amended.  A plain file is not relevant, and no fragment of any      *)
(* category in the corpus is taken from it unless it is a dependency file  *)
(* (a primary file imports it).                                            *)
(***************************************************************************)
C4_PlainFileOnlyAsDependency ==
    Analyzed =>
        \A f \in Range(all_python_files) :
            PlainFile(f) =>
                /\ f \notin Range(crypto_files)
                /\ f \notin Range(dependencies) => FragmentsFrom(f) = {}

\* C4's case: the corpus was built beside a plain file that no primary file
\* imports
C4_Witness ==
    /\ analysis = "True"
    /\ extracted # {}
    /\ \E f \in Range(all_python_files) :
          /\ PlainFile(f)
          /\ \A p \in Range(crypto_files) : ~Imports(p, f)

(***************************************************************************)
(* C5.  An assignment to an upper-case name matching the keyword rule that *)
(* lies in a function or class body at any depth is not returned by        *)
(* _extract_constants_from_ast.                                            *)
(* The code looks at the assignment's direct parent only.                  *)
(***************************************************************************)
C5_NoConstantFromInsideBodies ==
    Analyzed =>
        \A f \in Submitted :
            LET nodes == file_asts[f].nodes
            IN  \A i \in 1..Len(nodes) :
                    ( /\ nodes[i].type = "Assign"
                      /\ Enclosed(nodes, i)
                      /\ \E t \in 1..Len(nodes[i].targets) :
                            /\ nodes[i].targets[t].isName
                            /\ IsUpper(nodes[i].targets[t].id)
                            /\ _is_encryption_related(nodes[i].targets[t].id) )
                    => [file |-> f, category |-> "constant",
                        text |-> _extract_node_code(nodes[i], file_contents[f])]
                           \notin extracted

(***************************************************************************)
(* C6.  An import statement of a submitted file whose module the module    *)
(* index resolves to a project file (from m import x, from .m import x,    *)
(* import m, import pkg.m) is in the artifact only as a comment with the   *)
(* inlining note, never as an executable line.                             *)
(* The code looks up ".m" for a relative import and "pkg" for pkg.m.       *)
(***************************************************************************)
C6_InternalImportsOnlyAsComments ==
    Generated =>
        \A f \in Submitted :
            LET nodes == file_asts[f].nodes
            IN  \A i \in 1..Len(nodes) :
                    nodes[i].type \in {"Import", "ImportFrom"} =>
                        \A k \in 1..Len(nodes[i].names) :
                            LET alias == nodes[i].names[k]
                                name == IF nodes[i].type = "Import" THEN alias.name
                                        ELSE nodes[i].module
                            IN  name \in DOMAIN project_modules =>
                                    ImportStatement(nodes[i], alias)
                                        \notin Range(ArtifactLines)

(***************************************************************************)
(* C7.  As specified: a file that no primary file imports (one imported    *)
(* only by a dependency file) is not in the dependency set and no fragment *)
(* of it is extracted.                                                     *)
(***************************************************************************)
C7_UnimportedFileNeverExtracted ==
    Analyzed =>
        \A d \in Range(all_python_files) :
            ( /\ \A p \in Range(crypto_files) : ~Imports(p, d)
              /\ \E h \in Range(dependencies) : Imports(h, d) )
            => /\ d \notin Range(dependencies)
               /\ FragmentsFrom(d) = {}

(***************************************************************************)
(* C7, amended.  Dependency resolution is single-hop: a file that no       *)
(* primary file imports (one imported only by a dependency file) is not    *)
(* in the dependency set, and unless it is itself a primary file no        *)
(* fragment of it is extracted.                                            *)
(***************************************************************************)
C7_SingleHop ==
    Analyzed =>
        \A d \in Range(all_python_files) :
            (\A p \in Range(crypto_files) : ~Imports(p, d)) =>
                /\ d \notin Range(dependencies)
                /\ d \notin Range(crypto_files) => FragmentsFrom(d) = {}

\* C7's case: a dependency file imports a file that is neither primary nor
\* imported by a primary file
C7_Witness ==
    /\ analysis = "True"
    /\ \E d \in Range(all_python_files) :
          /\ d \notin Range(crypto_files)
          /\ \A p \in Range(crypto_files) : ~Imports(p, d)
          /\ \E h \in Range(dependencies) : Imports(h, d)

(***************************************************************************)
(* C8.  The primary file set and the dependency file set are disjoint,     *)
(* also when a primary file imports another primary file; the functions of *)
(* a primary file go to the functions of the corpus, never to its helper   *)
(* functions.                                                              *)
(***************************************************************************)
C8_PrimaryNeverDependency ==
    Analyzed =>
        /\ Range(crypto_files) \cap Range(dependencies) = {}
        /\ \A e \in extracted :
              e.file \in Range(crypto_files) =>
                  /\ e.category # "helper_function"
                  /\ e.category = "function" =>
                        /\ e.text \in Range(encryption_code.functions)
                        /\ e.text \notin Range(encryption_code.helper_functions)

\* C8's case: a primary file imports another primary file, whose functions
\* were extracted
C8_Witness ==
    /\ analysis = "True"
    /\ \E p, q \in Range(crypto_files) :
          /\ p # q
          /\ Imports(p, q)
          /\ \E e \in FragmentsFrom(q) : e.category = "function"

(***************************************************************************)
(* C9.  During one analysis run each discovered file is read from disk and *)
(* parsed at most once.                                                    *)
(* The code reads every crypto file a second time to find its imports.     *)
(***************************************************************************)
C9_EachFileReadOnce == \A f \in Files : reads[f] <= 1

(***************************************************************************)
(* C10.  When no discovered file is classified relevant, analyze_project   *)
(* returns False and leaves the corpus empty, and main does not call       *)
(* generate_fixed_oracle_file: the run makes no directory and writes no    *)
(* file.                                                                   *)
(***************************************************************************)
C10_NothingFoundNothingWritten ==
    (Analyzed /\ crypto_files = <<>>) =>
        /\ analysis = "False"
        /\ encryption_code = EmptyCode
        /\ extracted = {}
        /\ made_dirs = {}
        /\ opened = {}
        /\ returned = <<>>
        /\ ~ENABLED GenerateOracle
        /\ ~ENABLED GenerateOracleFails

\* C10's case: main has ended on a project with files, none of them relevant
C10_Witness ==
    /\ pc = "done"
    /\ analysis = "False"
    /\ all_python_files # <<>>

(***************************************************************************)
(* Vocabulary of the properties of the text functions.                     *)
(***************************************************************************)
\* the lines of a text, as str.split('\n') gives them
LinesOf(text) == SplitChar(text, "LF")

\* the indices of the lines that are not blank
SolidLines(lines) == {i \in 1..Len(lines) : Strip(lines[i]) # <<>>}

\* the index of the first line that is not blank (there is one)
FirstSolid(lines) == CHOOSE i \in SolidLines(lines) : \A j \in SolidLines(lines) : i <= j

\* the lines lineno..end_lineno of the text given to _extract_node_code
SpanLines == SubSeq(SplitLines(source_text), source_node.lineno, source_node.end_lineno)

(***************************************************************************)
(* C11.  The fragment _extract_node_code returns for a node, with the      *)
(* indentation fixed, has no leading whitespace on its first non-blank     *)
(* line and has as many lines as the node's span, lineno to end_lineno.    *)
(***************************************************************************)
C11_FragmentKeepsSpanAndStartsAtMargin ==
    call = "_extract_node_code" =>
        LET out == LinesOf(result)
        IN  /\ Len(out) = source_node.end_lineno - source_node.lineno + 1
            /\ SolidLines(out) # {} => IndentOf(out[FirstSolid(out)]) = 0

\* C11's case: a node of two or more lines whose first line is indented and
\* not blank was extracted
C11_Witness ==
    /\ call = "_extract_node_code"
    /\ source_node.end_lineno > source_node.lineno
    /\ Strip(SpanLines[1]) # <<>>
    /\ IndentOf(SpanLines[1]) > 0
    /\ result # <<>>

(***************************************************************************)
(* Vocabulary of the properties of the self-check stub.                    *)
(***************************************************************************)
\* the comment line that opens the stub
STUB_TITLE == <<"#"," ","U6E2C","U8A66","U4EE3","U78BC">>

\* the artifact's lines from the stub's title to the end
StubLines ==
    LET at == {i \in 1..Len(ArtifactLines) : ArtifactLines[i] = STUB_TITLE}
    IN  SubSeq(ArtifactLines, CHOOSE i \in at : \A j \in at : j <= i, Len(ArtifactLines))

\* the name in the "class <name>..." line that opens a class fragment
ClassNameOf(class_code) ==
    LET word == Words(LinesOf(class_code)[1])[2]
        stops == {i \in 1..Len(word) : word[i] \in {"(", ":"}}
    IN  IF stops = {} THEN word
        ELSE SubSeq(word, 1, (CHOOSE i \in stops : \A j \in stops : i <= j) - 1)

(***************************************************************************)
(* C12.  When the corpus holds a class, the stub of the artifact creates   *)
(* an instance of the first class of the corpus (the name in the stub is   *)
(* that class's name) and calls its set_mode; when the corpus holds no     *)
(* class, the stub creates nothing and calls no set_mode.                  *)
(* The code writes the name Cipher whatever the classes of the corpus are. *)
(***************************************************************************)
C12_StubCreatesFirstClass ==
    Generated =>
        IF encryption_code.classes # <<>>
        THEN /\ \E i \in 1..Len(StubLines) :
                    Contains(StubLines[i],
                             <<" ", "=", " ">> \o ClassNameOf(encryption_code.classes[1])
                                 \o <<"(", ")">>)
             /\ \E i \in 1..Len(StubLines) : Contains(StubLines[i], <<".","s","e","t","_","m","o","d","e","(">>)
        ELSE \A i \in 1..Len(StubLines) :
                 /\ ~Contains(StubLines[i], <<".","s","e","t","_","m","o","d","e","(">>)
                 /\ ~Contains(StubLines[i], <<" ","="," ">>)

(***************************************************************************)
(* Vocabulary of the properties of the artifact's sections.                *)
(***************************************************************************)
\* the comment lines that open the sections, in section order: other
\* imports, internal imports, constants, helper functions, classes,
\* functions, stub
SECTION_TITLES ==
    << <<"#"," ","U6A19","U6E96","U5EAB","U548C","U7B2C","U4E09","U65B9","U5EAB","U5C0E","U5165">>,
       <<"#"," ","U9805","U76EE","U5167","U90E8","U5C0E","U5165","UFF08","U76F8","U95DC","U4EE3","U78BC","U5DF2","U5305","U542B","U5728","U4E0B","U65B9","UFF09">>,
       <<"#"," ","U5E38","U91CF","U5B9A","U7FA9">>,
       <<"#"," ","U8F14","U52A9","U51FD","U6578","UFF08","U4F86","U81EA","U9805","U76EE","U4F9D","U8CF4","UFF09">>,
       <<"#"," ","U4E3B","U8981","U985E","U5B9A","U7FA9">>,
       <<"#"," ","U4E3B","U8981","U51FD","U6578","U5B9A","U7FA9">>,
       STUB_TITLE >>

\* the indices of the lines that are the title of section k
TitleAt(lines, k) == {i \in 1..Len(lines) : lines[i] = SECTION_TITLES[k]}

\* the smallest number of a set of numbers that is not empty
Least(S) == CHOOSE i \in S : \A j \in S : i <= j

\* the list of the corpus that section k (3 to 6) renders
BucketOf(k) ==
    CASE k = 3 -> encryption_code.constants
      [] k = 4 -> encryption_code.helper_functions
      [] k = 5 -> encryption_code.classes
      [] k = 6 -> encryption_code.functions

\* the import statements of the corpus that belong to section k (1 or 2)
ImportsOf(k) ==
    {imp \in encryption_code.imports : Contains(imp, INTERNAL_MARK) <=> k = 2}

\* the lines of the fragments in the order of the list, an empty line
\* after each fragment
InOrder(entries) ==
    Flatten([i \in 1..Len(entries) |-> LinesOf(entries[i]) \o << <<>> >>])

(***************************************************************************)
(* C13.  The artifact opens with the header; its sections follow in the    *)
(* order other imports, internal imports, constants, helper functions,     *)
(* classes, functions, stub; a section is there exactly when its bucket of *)
(* the corpus is not empty (the stub always); and the constants, helper    *)
(* functions, classes and functions sections hold their fragments in the   *)
(* order of the corpus's lists.                                            *)
(***************************************************************************)
C13_SectionsInFixedOrder ==
    Generated =>
        LET lines == ArtifactLines
            at == [k \in 1..7 |-> TitleAt(lines, k)]
            \* the title line of each section that is present
            start == [k \in 1..7 |-> IF at[k] = {} THEN 0 ELSE Least(at[k])]
            \* the title line of the first section present after section k
            following ==
                [k \in 1..6 |-> Least({start[j] : j \in {j \in (k + 1)..7 : at[j] # {}}})]
            \* the lines of section k after its title and the rule under it
            body == [k \in 1..6 |->
                        IF at[k] = {} THEN <<>>
                        ELSE SubSeq(lines, start[k] + 2, following[k] - 1)]
        IN  /\ lines[1] = <<"#","!","/","u","s","r","/","b","i","n","/","e","n","v"," ","p","y","t","h","o","n","3">>
            /\ \A k \in 1..7 : Cardinality(at[k]) <= 1
            /\ at[7] # {}
            /\ \A k \in 1..2 : at[k] # {} <=> ImportsOf(k) # {}
            /\ \A k \in 3..6 : at[k] # {} <=> BucketOf(k) # <<>>
            /\ \A k \in 1..7 : at[k] # {} => start[k] > 6
            /\ \A j, k \in 1..7 :
                  (j < k /\ at[j] # {} /\ at[k] # {}) => start[j] < start[k]
            /\ \A k \in 1..2 :
                  at[k] # {} =>
                      /\ Len(body[k]) = Cardinality(ImportsOf(k)) + 1
                      /\ body[k][Len(body[k])] = <<>>
                      /\ Range(SubSeq(body[k], 1, Len(body[k]) - 1)) = ImportsOf(k)
            /\ \A k \in 3..6 : at[k] # {} => body[k] = InOrder(BucketOf(k))

\* C13's case: an artifact was written from a corpus with imports of both
\* kinds and two fragments in each of its four lists
C13_Witness ==
    /\ Generated
    /\ \A k \in 1..2 : ImportsOf(k) # {}
    /\ \A k \in 3..6 : Len(BucketOf(k)) = 2

(***************************************************************************)
(* C14.  For every import declaration of a primary file, when the name of  *)
(* the imported module (the module of a from-import; the full dotted name  *)
(* of an "import a.b") is a key of the module index and the file it maps   *)
(* to is not primary, that file is in the dependency set.                  *)
(* The code looks up only the part of an "import a.b" before the first dot.*)
(***************************************************************************)
C14_ResolvedImportIsDependency ==
    Analyzed =>
        \A p \in Range(crypto_files) :
            LET nodes == file_asts[p].nodes
            IN  \A i \in 1..Len(nodes) :
                    nodes[i].type \in {"Import", "ImportFrom"} =>
                        \A k \in 1..Len(nodes[i].names) :
                            LET module_name == IF nodes[i].type = "Import"
                                               THEN nodes[i].names[k].name
                                               ELSE nodes[i].module
                            IN  ( /\ module_name \in DOMAIN project_modules
                                  /\ project_modules[module_name] \notin Range(crypto_files) )
                                => project_modules[module_name] \in Range(dependencies)

(***************************************************************************)
(* C15.  _fix_code_indentation removes leading whitespace only: with w the *)
(* indentation of the first non-blank line, every non-blank line comes out *)
(* as the line given less its first min(w, its own indentation)            *)
(* characters, so no character that is not whitespace is dropped.          *)
(* The code cuts w characters from every line that is at least w long,     *)
(* also from one indented less than w.                                     *)
(***************************************************************************)
C15_RemovesOnlyLeadingWhitespace ==
    call = "_fix_code_indentation" =>
        LET given == LinesOf(source_text)
            fixed == LinesOf(result)
            w == IF SolidLines(given) = {} THEN 0
                 ELSE IndentOf(given[FirstSolid(given)])
        IN  /\ Len(fixed) = Len(given)
            /\ \A i \in SolidLines(given) :
                  LET cut == IF IndentOf(given[i]) < w THEN IndentOf(given[i]) ELSE w
                  IN  fixed[i] = SubSeq(given[i], cut + 1, Len(given[i]))

(***************************************************************************)
(* Vocabulary of the properties of the internal-import markers.            *)
(***************************************************************************)
\* the line is an import statement turned into a comment with the note
IsMarker(line) ==
    /\ Contains(line, INTERNAL_MARK)
    /\ \/ StartsWith(line, <<"#"," ","f","r","o","m"," ">>)
       \/ StartsWith(line, <<"#"," ","i","m","p","o","r","t"," ">>)

\* the key of the module index under which the marker's statement was
\* found to be internal
MarkedModule(line) ==
    LET parts == Words(line)
    IN  IF parts[2] = <<"f","r","o","m">> THEN parts[3] ELSE SplitChar(parts[3], ".")[1]

(***************************************************************************)
(* C16.  Every internal-import marker of the artifact, those that come     *)
(* from the imports of dependency files too, names a module whose file is  *)
(* primary or a dependency in this run, so that its declarations were      *)
(* submitted to extraction.                                                *)
(* The imports of a dependency file are marked although the files they     *)
(* name are not followed.                                                  *)
(***************************************************************************)
C16_MarkersNameSubmittedFiles ==
    Generated =>
        LET lines == ArtifactLines
        IN  \A i \in 1..Len(lines) :
                IsMarker(lines[i]) =>
                    /\ MarkedModule(lines[i]) \in DOMAIN project_modules
                    /\ project_modules[MarkedModule(lines[i])] \in Submitted

====
